---- MODULE Spec2Model ----
(***************************************************************************)
(* State-machine model of the ad-hoc 3D bin-packing solver                 *)
(* (src/ad-hoc/solver.py): Item orientations, VehiclePacker placement      *)
(* search, the delivery-zone planner, the best-fit constructive phase and  *)
(* the vehicle-closing local search of BinPackingSolver.                   *)
(*                                                                         *)
(* Conventions.                                                            *)
(*  - An Optional value is a sequence: <<>> is None, a non-empty tuple is  *)
(*    the value (x_min = <<3>>, a position <<x,y,z,l,w,h>>).               *)
(*  - A float ratio a / b is the pair <<a, b>>, compared by cross          *)
(*    multiplication; float('inf') is <<1, 0>> and -1.0 is <<-1, 1>>.      *)
(*  - list(set(...)) yields the distinct elements in an order the language *)
(*    does not fix: an Item's orientations are one of the orderings of the *)
(*    distinct permutations, chosen when the Item is constructed.          *)
(*  - call records the VehiclePacker method last called on a packer from   *)
(*    outside solve: its name, arguments, the packer before the call and   *)
(*    the value returned.  solve makes no such call: call stays NoCall.    *)
(***************************************************************************)
EXTENDS Integers, Sequences, FiniteSets, TLC

VARIABLES vehicle_template, items, heuristic, use_delivery_zones,
          delivery_zones, vehicles, unplaced_items, sorted_items,
          pc, pos, iteration, success, call

vars == <<vehicle_template, items, heuristic, use_delivery_zones,
          delivery_zones, vehicles, unplaced_items, sorted_items,
          pc, pos, iteration, success, call>>

(***************************************************************************)
(* Bounds of the model.                                                    *)
(***************************************************************************)
MaxItems == 3

MaxDelivery == 1

\* The most placements a packer driven through its methods is given.
MaxPlacements == 3

\* The longest side of a parcel built on its own.
MaxSide == 3

(***************************************************************************)
(* Program constants.                                                      *)
(***************************************************************************)
max_iterations == 10

ManyGroups == 20

SeveralGroups == 10

SmallGroupSize == 3

MinZoneFactor == 3

None == <<>>

NoCall == [op |-> "none"]

Heuristics == {"volume", "longest_side", "area", "height"}

(***************************************************************************)
(* Generic helpers.                                                        *)
(***************************************************************************)
Max2(a, b) == IF a >= b THEN a ELSE b

Min2(a, b) == IF a <= b THEN a ELSE b

Range(s) == {s[i] : i \in 1..Len(s)}

RECURSIVE SumSeq(_)
SumSeq(s) == IF s = <<>> THEN 0 ELSE Head(s) + SumSeq(Tail(s))

\* The orderings of a finite set: every sequence listing it without repeats.
Orderings(S) ==
    {s \in [1..Cardinality(S) -> S] : \A i, j \in 1..Cardinality(S) : i # j => s[i] # s[j]}

(***************************************************************************)
(* Item and Vehicle.                                                       *)
(***************************************************************************)
\* all_orientations with the height repeated in the second triple.
all_orientations_repeat(l, w, h) ==
    << <<l, w, h>>, <<l, h, h>>, <<w, l, h>>, <<w, h, l>>, <<h, l, w>>, <<h, w, l>> >>

all_orientations(l, w, h) ==
    << <<l, w, h>>, <<l, h, w>>, <<w, l, h>>, <<w, h, l>>, <<h, l, w>>, <<h, w, l>> >>

\* Item.__post_init__: the orders list(set(all_orientations)) may produce.
OrientationLists(l, w, h) == Orderings(Range(all_orientations(l, w, h)))

Item(id, l, w, h, d, os) ==
    [id |-> id, length |-> l, width |-> w, height |-> h,
     delivery_time |-> d, orientations |-> os]

Vehicle(l, w, h) == [length |-> l, width |-> w, height |-> h]

item_volume(item) == item.length * item.width * item.height

base_area(item) == item.length * item.width

longest_side(item) == Max2(item.length, Max2(item.width, item.height))

vehicle_volume(v) == v.length * v.width * v.height

\* filter_orientations comparing the length alone.
filter_orientations_length_only(item, v) ==
    SelectSeq(item.orientations, LAMBDA o : o[1] <= v.length)

filter_orientations(item, v) ==
    SelectSeq(item.orientations,
              LAMBDA o : o[1] <= v.length /\ o[2] <= v.width /\ o[3] <= v.height)

(***************************************************************************)
(* Placement.                                                              *)
(***************************************************************************)
Placement(vid, iid, x, y, z, l, w, h) ==
    [vehicle_id |-> vid, item_id |-> iid, x |-> x, y |-> y, z |-> z,
     length |-> l, width |-> w, height |-> h]

\* overlaps_with with the extents left out of the separation tests.
overlaps_with_origins(p, q) ==
    ~ (\/ p.x <= q.x \/ q.x <= p.x
       \/ p.y <= q.y \/ q.y <= p.y
       \/ p.z <= q.z \/ q.z <= p.z)

overlaps_with(p, q) ==
    ~ (\/ p.x + p.length <= q.x \/ q.x + q.length <= p.x
       \/ p.y + p.width <= q.y  \/ q.y + q.width <= p.y
       \/ p.z + p.height <= q.z \/ q.z + q.height <= p.z)

(***************************************************************************)
(* VehiclePacker.  A packer is [vehicle_id, placements, occupied_volume];  *)
(* its vehicle is the template v shared by every packer of a run.          *)
(***************************************************************************)
VehiclePacker(vid) == [vehicle_id |-> vid, placements |-> <<>>, occupied_volume |-> 0]

utilization_rate(packer, v) ==
    IF vehicle_volume(v) > 0 THEN <<packer.occupied_volume, vehicle_volume(v)>> ELSE <<0, 1>>

RatioLess(a, b) == a[1] * b[2] < b[1] * a[2]

can_fit_item(item, v) == Len(filter_orientations(item, v)) > 0

\* Lines 172-178: the origin and the three next corners of every placement.
\* candidate_positions with the corner along x one unit further out.
candidate_positions_gap(packer) ==
    {<<0, 0, 0>>}
    \cup {<<p.x + p.length + 1, p.y, p.z>> : p \in Range(packer.placements)}
    \cup {<<p.x, p.y + p.width, p.z>> : p \in Range(packer.placements)}
    \cup {<<p.x, p.y, p.z + p.height>> : p \in Range(packer.placements)}

candidate_positions(packer) ==
    {<<0, 0, 0>>}
    \cup {<<p.x + p.length, p.y, p.z>> : p \in Range(packer.placements)}
    \cup {<<p.x, p.y + p.width, p.z>> : p \in Range(packer.placements)}
    \cup {<<p.x, p.y, p.z + p.height>> : p \in Range(packer.placements)}

\* Lines 181-189: the anchors kept for the given x-range.
candidate_filter(packer, v, x_min, x_max) ==
    {c \in candidate_positions(packer) :
        /\ ~ (x_min # None /\ c[1] < x_min[1])
        /\ ~ (x_max # None /\ c[1] >= x_max[1])
        /\ c[1] < v.length /\ c[2] < v.width /\ c[3] < v.height}

\* The sort key of line 192: (z, y, x) ascending.
PosKeyLess(a, b) ==
    \/ a[3] < b[3]
    \/ a[3] = b[3] /\ a[2] < b[2]
    \/ a[3] = b[3] /\ a[2] = b[2] /\ a[1] < b[1]

RECURSIVE SortPositions(_)
SortPositions(S) ==
    IF S = {} THEN <<>>
    ELSE LET m == CHOOSE c \in S : \A d \in S : d = c \/ PosKeyLess(c, d)
         IN <<m>> \o SortPositions(S \ {m})

candidate_list(packer, v, x_min, x_max) ==
    SortPositions(candidate_filter(packer, v, x_min, x_max))

\* position_ok without the test of lines 204-207 against the vehicle shape.
position_ok_unbounded(packer, v, item, o, c, x_min, x_max) ==
    /\ ~ (x_min # None /\ c[1] < x_min[1])
    /\ ~ (x_max # None /\ c[1] + o[1] > x_max[1])
    /\ LET t == Placement(packer.vehicle_id, item.id, c[1], c[2], c[3], o[1], o[2], o[3])
       IN ~ \E p \in Range(packer.placements) : overlaps_with(t, p)

\* position_ok without the overlap test of lines 210-211.
position_ok_overlapping(packer, v, item, o, c, x_min, x_max) ==
    /\ ~ (x_min # None /\ c[1] < x_min[1])
    /\ ~ (x_max # None /\ c[1] + o[1] > x_max[1])
    /\ ~ (\/ c[1] + o[1] > v.length
          \/ c[2] + o[2] > v.width
          \/ c[3] + o[3] > v.height)

\* Lines 197-212: the tests one (orientation, anchor) pair must pass.
position_ok(packer, v, item, o, c, x_min, x_max) ==
    /\ ~ (x_min # None /\ c[1] < x_min[1])
    /\ ~ (x_max # None /\ c[1] + o[1] > x_max[1])
    /\ ~ (\/ c[1] + o[1] > v.length
          \/ c[2] + o[2] > v.width
          \/ c[3] + o[3] > v.height)
    /\ LET t == Placement(packer.vehicle_id, item.id, c[1], c[2], c[3], o[1], o[2], o[3])
       IN ~ \E p \in Range(packer.placements) : overlaps_with(t, p)

RECURSIVE first_anchor(_, _, _, _, _, _, _)
first_anchor(packer, v, item, o, cl, x_min, x_max) ==
    IF cl = <<>> THEN None
    ELSE IF position_ok(packer, v, item, o, Head(cl), x_min, x_max)
         THEN <<Head(cl)[1], Head(cl)[2], Head(cl)[3], o[1], o[2], o[3]>>
         ELSE first_anchor(packer, v, item, o, Tail(cl), x_min, x_max)

RECURSIVE first_orientation(_, _, _, _, _, _, _)
first_orientation(packer, v, item, os, cl, x_min, x_max) ==
    IF os = <<>> THEN None
    ELSE LET r == first_anchor(packer, v, item, Head(os), cl, x_min, x_max)
         IN IF r # None THEN r
            ELSE first_orientation(packer, v, item, Tail(os), cl, x_min, x_max)

\* find_placement_position looping over the anchors first and over the
\* orientations inside.
find_placement_position_anchor_major(packer, v, item, x_min, x_max) ==
    LET orientations == filter_orientations(item, v)
        cl == candidate_list(packer, v, x_min, x_max)
        ok == {m \in (1..Len(cl)) \X (1..Len(orientations)) :
                 position_ok(packer, v, item, orientations[m[2]], cl[m[1]], x_min, x_max)}
    IN IF ok = {} THEN None
       ELSE LET m == CHOOSE m \in ok :
                       \A n \in ok : m[1] < n[1] \/ (m[1] = n[1] /\ m[2] <= n[2])
            IN cl[m[1]] \o orientations[m[2]]

find_placement_position(packer, v, item, x_min, x_max) ==
    LET orientations == filter_orientations(item, v)
    IN IF orientations = <<>> THEN None
       ELSE first_orientation(packer, v, item, orientations,
                              candidate_list(packer, v, x_min, x_max), x_min, x_max)

\* add_item adding the base area of the item to occupied_volume.
add_item_area(packer, v, item, x_min, x_max) ==
    LET position == find_placement_position(packer, v, item, x_min, x_max)
    IN IF position = None THEN [packer |-> packer, ok |-> FALSE]
       ELSE [packer |->
                [packer EXCEPT
                   !.placements = Append(@, Placement(packer.vehicle_id, item.id,
                                    position[1], position[2], position[3],
                                    position[4], position[5], position[6])),
                   !.occupied_volume = @ + base_area(item)],
             ok |-> TRUE]

\* add_item: the packer after the call, and whether it returned True.
add_item(packer, v, item, x_min, x_max) ==
    LET position == find_placement_position(packer, v, item, x_min, x_max)
    IN IF position = None THEN [packer |-> packer, ok |-> FALSE]
       ELSE [packer |->
                [packer EXCEPT
                   !.placements = Append(@, Placement(packer.vehicle_id, item.id,
                                    position[1], position[2], position[3],
                                    position[4], position[5], position[6])),
                   !.occupied_volume = @ + item_volume(item)],
             ok |-> TRUE]

\* try_add_item_with_score scoring the packer as it is, the item left out.
try_add_item_with_score_current(packer, v, item, x_min, x_max) ==
    LET position == find_placement_position(packer, v, item, x_min, x_max)
    IN IF position = None THEN None
       ELSE IF vehicle_volume(v) > 0
            THEN <<packer.occupied_volume, vehicle_volume(v)>>
            ELSE <<0, 1>>

try_add_item_with_score(packer, v, item, x_min, x_max) ==
    LET position == find_placement_position(packer, v, item, x_min, x_max)
    IN IF position = None THEN None
       ELSE IF vehicle_volume(v) > 0
            THEN <<packer.occupied_volume + item_volume(item), vehicle_volume(v)>>
            ELSE <<0, 1>>

\* try_add_item_call appending the position it found, as add_item does.
try_add_item_call_commits(packer, v, item, x_min, x_max) ==
    [packer |-> add_item(packer, v, item, x_min, x_max).packer,
     result |-> try_add_item_with_score(packer, v, item, x_min, x_max)]

\* The whole call of try_add_item_with_score (lines 238-250): the packer after
\* it and the value returned.  Neither it nor find_placement_position assigns
\* an attribute of the packer.
try_add_item_call(packer, v, item, x_min, x_max) ==
    [packer |-> packer,
     result |-> try_add_item_with_score(packer, v, item, x_min, x_max)]

\* Lines 257-258: the position of the first placement carrying item_id
\* (0 when the loop ends without one).
first_placement_of(placements, item_id) ==
    IF \E i \in 1..Len(placements) : placements[i].item_id = item_id
    THEN CHOOSE i \in 1..Len(placements) :
           /\ placements[i].item_id = item_id
           /\ \A j \in 1..(i - 1) : placements[j].item_id # item_id
    ELSE 0

\* list.pop(i), i counted from 1.
pop_at(s, i) == [k \in 1..(Len(s) - 1) |-> IF k < i THEN s[k] ELSE s[k + 1]]

\* remove_item popping every placement that carries item_id.
remove_item_every(packer, item_id) ==
    LET kept == SelectSeq(packer.placements, LAMBDA p : p.item_id # item_id)
        gone == SelectSeq(packer.placements, LAMBDA p : p.item_id = item_id)
    IN IF gone = <<>> THEN [packer |-> packer, ok |-> FALSE]
       ELSE [packer |->
                [packer EXCEPT
                   !.placements = kept,
                   !.occupied_volume =
                      @ - SumSeq([k \in 1..Len(gone) |->
                                    gone[k].length * gone[k].width * gone[k].height])],
             ok |-> TRUE]

\* remove_item without line 259, the update of occupied_volume.
remove_item_volume_kept(packer, item_id) ==
    LET i == first_placement_of(packer.placements, item_id)
    IN IF i = 0 THEN [packer |-> packer, ok |-> FALSE]
       ELSE [packer |-> [packer EXCEPT !.placements = pop_at(@, i)], ok |-> TRUE]

\* remove_item: the packer after the call, and whether it returned True.
remove_item(packer, item_id) ==
    LET i == first_placement_of(packer.placements, item_id)
    IN IF i = 0 THEN [packer |-> packer, ok |-> FALSE]
       ELSE LET placement == packer.placements[i]
            IN [packer |->
                   [packer EXCEPT
                      !.occupied_volume =
                         @ - (placement.length * placement.width * placement.height),
                      !.placements = pop_at(@, i)],
                ok |-> TRUE]

(***************************************************************************)
(* Python float arithmetic (IEEE 754 binary64, round to nearest, ties to   *)
(* even) as the zone planner uses it on non-negative values.  A natural    *)
(* number of any size is the sequence of its limbs, least significant      *)
(* first, without a leading zero limb; a float is [m, e] with value        *)
(* m * 2^e, where m is zero (<<>>) or has exactly MantissaBits bits.       *)
(***************************************************************************)
LimbBits == 15

LimbBase == 32768

MantissaBits == 53

RECURSIVE Pow2(_)
Pow2(n) == IF n = 0 THEN 1 ELSE 2 * Pow2(n - 1)

RECURSIVE BitLength(_)
BitLength(x) == IF x = 0 THEN 0 ELSE 1 + BitLength(x \div 2)

RECURSIVE BigNorm(_)
BigNorm(a) ==
    IF a = <<>> THEN <<>>
    ELSE IF a[Len(a)] = 0 THEN BigNorm(SubSeq(a, 1, Len(a) - 1)) ELSE a

RECURSIVE BigFromNat(_)
BigFromNat(n) ==
    IF n = 0 THEN <<>> ELSE <<n % LimbBase>> \o BigFromNat(n \div LimbBase)

RECURSIVE BigToNat(_)
BigToNat(a) == IF a = <<>> THEN 0 ELSE Head(a) + LimbBase * BigToNat(Tail(a))

LimbHead(a) == IF a = <<>> THEN 0 ELSE Head(a)

LimbTail(a) == IF a = <<>> THEN <<>> ELSE Tail(a)

RECURSIVE BigAdd(_, _, _)
BigAdd(a, b, carry) ==
    IF a = <<>> /\ b = <<>> THEN (IF carry = 0 THEN <<>> ELSE <<carry>>)
    ELSE LET x == LimbHead(a) + LimbHead(b) + carry
         IN <<x % LimbBase>> \o BigAdd(LimbTail(a), LimbTail(b), x \div LimbBase)

\* a - b - borrow for a >= b + borrow, before normalisation.
RECURSIVE BigSubLimbs(_, _, _)
BigSubLimbs(a, b, borrow) ==
    IF a = <<>> THEN <<>>
    ELSE LET x == Head(a) - LimbHead(b) - borrow
         IN IF x < 0
            THEN <<x + LimbBase>> \o BigSubLimbs(Tail(a), LimbTail(b), 1)
            ELSE <<x>> \o BigSubLimbs(Tail(a), LimbTail(b), 0)

BigSub(a, b) == BigNorm(BigSubLimbs(a, b, 0))

RECURSIVE BigMulSmall(_, _, _)
BigMulSmall(a, k, carry) ==
    IF a = <<>> THEN (IF carry = 0 THEN <<>> ELSE <<carry>>)
    ELSE LET x == Head(a) * k + carry
         IN <<x % LimbBase>> \o BigMulSmall(Tail(a), k, x \div LimbBase)

BigShiftLimb(a) == IF a = <<>> THEN <<>> ELSE <<0>> \o a

RECURSIVE BigMul(_, _)
BigMul(a, b) ==
    IF b = <<>> \/ a = <<>> THEN <<>>
    ELSE BigAdd(BigMulSmall(a, Head(b), 0), BigShiftLimb(BigMul(a, Tail(b))), 0)

\* Long division continued for n more binary places from the remainder
\* r < b: the n quotient bits as a number, and the remainder left.  Doubling
\* r is written so that no intermediate value exceeds b.
RECURSIVE DivBits(_, _, _)
DivBits(r, b, n) ==
    IF n = 0 THEN [q |-> 0, r |-> r]
    ELSE LET up == r >= b - r
             rest == DivBits(IF up THEN r - (b - r) ELSE r + r, b, n - 1)
         IN [q |-> (IF up THEN Pow2(n - 1) ELSE 0) + rest.q, r |-> rest.r]

\* The same for n more limbs: the limbs of the quotient, least significant
\* first (leading zero limbs kept), and the remainder left.
RECURSIVE BigDivLimbs(_, _, _)
BigDivLimbs(r, b, n) ==
    IF n = 0 THEN [q |-> <<>>, r |-> r]
    ELSE LET limb == DivBits(r, b, LimbBits)
             rest == BigDivLimbs(limb.r, b, n - 1)
         IN [q |-> rest.q \o <<limb.q>>, r |-> rest.r]

BigBitLength(a) ==
    IF a = <<>> THEN 0 ELSE LimbBits * (Len(a) - 1) + BitLength(a[Len(a)])

BigShl(a, n) ==
    IF a = <<>> THEN <<>>
    ELSE [k \in 1..(n \div LimbBits) |-> 0] \o BigMulSmall(a, Pow2(n % LimbBits), 0)

BigShr(a, n) ==
    LET k == n \div LimbBits
        r == n % LimbBits
        d == SubSeq(a, k + 1, Len(a))
    IN BigNorm([i \in 1..Len(d) |->
                  (d[i] \div Pow2(r))
                  + (IF i < Len(d) THEN (d[i + 1] % Pow2(r)) * Pow2(LimbBits - r) ELSE 0)])

\* Bit n of a, the least significant being bit 0.
BigBit(a, n) ==
    IF n \div LimbBits + 1 > Len(a) THEN 0
    ELSE (a[n \div LimbBits + 1] \div Pow2(n % LimbBits)) % 2

BigLowBitsZero(a, n) == BigShl(BigShr(a, n), n) = a

BigOdd(a) == a # <<>> /\ a[1] % 2 = 1

\* The float nearest to m * 2^e (ties to even); inexact says that the exact
\* value lies strictly above m * 2^e and below (m + 1) * 2^e.
FloatRound(m, e, inexact) ==
    LET n == BigBitLength(m)
    IN IF n = 0 THEN [m |-> <<>>, e |-> 0]
       ELSE IF n <= MantissaBits
            THEN [m |-> BigShl(m, MantissaBits - n), e |-> e - (MantissaBits - n)]
            ELSE LET s == n - MantissaBits
                     q == BigShr(m, s)
                     half == BigBit(m, s - 1) = 1
                     rest == inexact \/ ~ BigLowBitsZero(m, s - 1)
                     up == half /\ (rest \/ BigOdd(q))
                     q2 == IF up THEN BigAdd(q, <<1>>, 0) ELSE q
                 IN IF BigBitLength(q2) > MantissaBits
                    THEN [m |-> BigShr(q2, 1), e |-> e + s + 1]
                    ELSE [m |-> q2, e |-> e + s]

\* float(n) for an int n >= 0.
FloatFromInt(n) == FloatRound(BigFromNat(n), 0, FALSE)

\* a / b for ints a >= 0 and b > 0: the quotient correctly rounded.  The
\* quotient floor(a * 2^s / b) has more than MantissaBits + 2 bits whenever
\* a > 0, so that the rounding sees the half bit and what lies below it.
FloatDivInt(a, b) ==
    LET n == (MantissaBits + 2 + BitLength(b)) \div LimbBits + 1
        d == BigDivLimbs(a % b, b, n)
    IN FloatRound(BigNorm(d.q \o BigFromNat(a \div b)), - (LimbBits * n), d.r # 0)

FloatMul(x, y) == FloatRound(BigMul(x.m, y.m), x.e + y.e, FALSE)

FloatAdd(x, y) ==
    IF x.m = <<>> THEN y
    ELSE IF y.m = <<>> THEN x
    ELSE LET e == Min2(x.e, y.e)
         IN FloatRound(BigAdd(BigShl(x.m, x.e - e), BigShl(y.m, y.e - e), 0), e, FALSE)

\* x - y for x >= y.
FloatSub(x, y) ==
    IF y.m = <<>> THEN x
    ELSE LET e == Min2(x.e, y.e)
         IN FloatRound(BigSub(BigShl(x.m, x.e - e), BigShl(y.m, y.e - e)), e, FALSE)

\* int(x) for a float x >= 0.
FloatToInt(x) ==
    IF x.m = <<>> THEN 0
    ELSE IF x.e >= 0 THEN BigToNat(BigShl(x.m, x.e))
    ELSE BigToNat(BigShr(x.m, - x.e))

\* The literals 0.4, 0.6 and 0.85: the floats nearest to 4/10, 6/10, 85/100.
Float04 == FloatDivInt(4, 10)

Float06 == FloatDivInt(6, 10)

Float085 == FloatDivInt(85, 100)

(***************************************************************************)
(* BinPackingSolver: the delivery-zone planner.  A dict is a function      *)
(* whose domain is the set of its keys.                                    *)
(***************************************************************************)
\* delivery_groups[d]: the items with delivery time d, in input order.
delivery_group(its, d) == SelectSeq(its, LAMBDA it : it.delivery_time = d)

RECURSIVE SortInts(_)
SortInts(S) ==
    IF S = {} THEN <<>>
    ELSE LET m == CHOOSE a \in S : \A b \in S : a <= b
         IN <<m>> \o SortInts(S \ {m})

constrained_times(its) == SortInts({its[i].delivery_time : i \in 1..Len(its)} \cap Nat)

group_volume(its, d) ==
    SumSeq([i \in 1..Len(delivery_group(its, d)) |-> item_volume(delivery_group(its, d)[i])])

MaxOfSet(S) == CHOOSE a \in S : \A b \in S : b <= a

max_item_dimension(its, d) ==
    MaxOfSet({longest_side(delivery_group(its, d)[i]) : i \in 1..Len(delivery_group(its, d))})

\* Line 316: nb_groups > 20 or (nb_groups > 10 and avg_items_per_group < 3),
\* with avg_items_per_group = nb_constrained_items / nb_groups.
use_cumulative(nb_groups, nb_constrained_items) ==
    \/ nb_groups > ManyGroups
    \/ nb_groups > SeveralGroups /\ nb_constrained_items < SmallGroupSize * nb_groups

\* Lines 322 and 329: relative_pos = i / max(nb_groups - 1, 1), i 0-based, and
\* int(L * (0.4 + 0.6 * (1 - relative_pos))), evaluated in floats as Python does.
cumulative_x_max(L, i, nb_groups) ==
    LET relative_pos == FloatDivInt(i, Max2(nb_groups - 1, 1))
    IN FloatToInt(FloatMul(FloatFromInt(L),
                           FloatAdd(Float04,
                                    FloatMul(Float06,
                                             FloatSub(FloatFromInt(1), relative_pos)))))

cumulative_zones(times, L) ==
    [d \in Range(times) |->
        LET i == (CHOOSE j \in 1..Len(times) : times[j] = d) - 1
        IN <<0, cumulative_x_max(L, i, Len(times))>>]

\* Lines 337-351: the length given to group d when the cursor is at current_x;
\* int((volumes[d] / total) * L * 0.85) is evaluated in floats as Python does.
zone_length(its, d, L, total, nb_groups, current_x) ==
    LET proposed ==
            IF total > 0
            THEN Max2(FloatToInt(FloatMul(FloatMul(FloatDivInt(group_volume(its, d), total),
                                                   FloatFromInt(L)),
                                          Float085)),
                      max_item_dimension(its, d) * MinZoneFactor)
            ELSE L \div nb_groups
    IN Min2(proposed, L - current_x)

\* proportional_zones without the clipping of lines 351 and 353.
RECURSIVE proportional_zones_unclipped(_, _, _, _, _, _)
proportional_zones_unclipped(its, rev, L, total, nb_groups, current_x) ==
    IF rev = <<>> THEN <<>>
    ELSE LET d == Head(rev)
             x_max == current_x + zone_length(its, d, L, total, nb_groups, 0)
         IN (d :> <<current_x, x_max>>)
            @@ proportional_zones_unclipped(its, Tail(rev), L, total, nb_groups, x_max)

\* Lines 335-355: the loop over reversed(constrained_times).
RECURSIVE proportional_zones(_, _, _, _, _, _)
proportional_zones(its, rev, L, total, nb_groups, current_x) ==
    IF rev = <<>> THEN <<>>
    ELSE LET d == Head(rev)
             x_max == Min2(current_x + zone_length(its, d, L, total, nb_groups, current_x), L)
         IN (d :> <<current_x, x_max>>)
            @@ proportional_zones(its, Tail(rev), L, total, nb_groups, x_max)

\* Reverse leaving the list in ascending order.
Reverse_kept(s) == s

Reverse(s) == [i \in 1..Len(s) |-> s[Len(s) + 1 - i]]

compute_delivery_groups(its, v, use_zones) ==
    IF ~ use_zones THEN <<>>
    ELSE LET times == constrained_times(its)
             nb_groups == Len(times)
             nb_constrained_items == Len(SelectSeq(its, LAMBDA it : it.delivery_time >= 0))
             total == SumSeq([i \in 1..nb_groups |-> group_volume(its, times[i])])
             constrained ==
                 IF use_cumulative(nb_groups, nb_constrained_items)
                 THEN cumulative_zones(times, v.length)
                 ELSE proportional_zones(its, Reverse(times), v.length, total, nb_groups, 0)
             unconstrained ==
                 IF \E i \in 1..Len(its) : its[i].delivery_time = -1
                 THEN (-1 :> <<0, v.length>>) ELSE <<>>
         IN IF times = <<>> THEN <<>> ELSE unconstrained @@ constrained

\* _get_zone_for_item followed by "x_min, x_max = zone if zone else (None, None)".
get_zone_for_item(item, zones, use_zones) ==
    IF ~ use_zones THEN None
    ELSE IF item.delivery_time \in DOMAIN zones THEN zones[item.delivery_time] ELSE None

zone_x_min(zone) == IF zone = None THEN None ELSE <<zone[1]>>

zone_x_max(zone) == IF zone = None THEN None ELSE <<zone[2]>>

(***************************************************************************)
(* BinPackingSolver: sort_items.                                           *)
(***************************************************************************)
secondary_key(item, h) ==
    CASE h = "volume" -> - item_volume(item)
      [] h = "longest_side" -> - longest_side(item)
      [] h = "area" -> - base_area(item)
      [] h = "height" -> - item.height
      [] OTHER -> 0

sort_key(item, h) ==
    IF item.delivery_time >= 0
    THEN <<0, item.delivery_time, secondary_key(item, h)>>
    ELSE <<1, 0, secondary_key(item, h)>>

KeyLess(a, b) ==
    \/ a[1] < b[1]
    \/ a[1] = b[1] /\ a[2] < b[2]
    \/ a[1] = b[1] /\ a[2] = b[2] /\ a[3] < b[3]

\* insert_sorted putting an item before the items whose key equals its own.
RECURSIVE insert_sorted_unstable(_, _, _)
insert_sorted_unstable(s, item, h) ==
    IF s = <<>> THEN <<item>>
    ELSE IF ~ KeyLess(sort_key(Head(s), h), sort_key(item, h))
         THEN <<item>> \o s
         ELSE <<Head(s)>> \o insert_sorted_unstable(Tail(s), item, h)

\* sorted() is stable: an item goes after every item whose key is not greater.
RECURSIVE insert_sorted(_, _, _)
insert_sorted(s, item, h) ==
    IF s = <<>> THEN <<item>>
    ELSE IF KeyLess(sort_key(item, h), sort_key(Head(s), h))
         THEN <<item>> \o s
         ELSE <<Head(s)>> \o insert_sorted(Tail(s), item, h)

RECURSIVE sort_from(_, _, _)
sort_from(done, its, h) ==
    IF Len(done) = Len(its) THEN done
    ELSE sort_from(insert_sorted(done, its[Len(done) + 1], h), its, h)

sort_items(its, h) == sort_from(<<>>, its, h)

(***************************************************************************)
(* BinPackingSolver: best-fit selection, the loop body of solve and the    *)
(* local search.  vs is the list self.vehicles; a packer is named by its   *)
(* position in vs (0: no packer).                                          *)
(***************************************************************************)
\* best_fit_scan keeping a packer whose score is not lower (>= for >).
RECURSIVE best_fit_scan_last(_, _, _, _, _, _, _, _, _)
best_fit_scan_last(vs, v, item, x_min, x_max, skip, i, best_vehicle, best_score) ==
    IF i > Len(vs) THEN best_vehicle
    ELSE LET score == try_add_item_with_score(vs[i], v, item, x_min, x_max)
         IN IF i # skip /\ score # None /\ ~ RatioLess(score, best_score)
            THEN best_fit_scan_last(vs, v, item, x_min, x_max, skip, i + 1, i, score)
            ELSE best_fit_scan_last(vs, v, item, x_min, x_max, skip, i + 1,
                                    best_vehicle, best_score)

\* Lines 414-421 and 493-504: scan the packers in list order, skipping the
\* one at position skip, and keep the first one with the strictly highest score.
RECURSIVE best_fit_scan(_, _, _, _, _, _, _, _, _)
best_fit_scan(vs, v, item, x_min, x_max, skip, i, best_vehicle, best_score) ==
    IF i > Len(vs) THEN best_vehicle
    ELSE LET score == try_add_item_with_score(vs[i], v, item, x_min, x_max)
         IN IF i # skip /\ score # None /\ RatioLess(best_score, score)
            THEN best_fit_scan(vs, v, item, x_min, x_max, skip, i + 1, i, score)
            ELSE best_fit_scan(vs, v, item, x_min, x_max, skip, i + 1, best_vehicle, best_score)

\* best_fit scanning every packer, the one at position skip included.
best_fit_no_skip(vs, v, item, x_min, x_max, skip) ==
    best_fit_scan(vs, v, item, x_min, x_max, 0, 1, 0, <<-1, 1>>)

best_fit(vs, v, item, x_min, x_max, skip) ==
    best_fit_scan(vs, v, item, x_min, x_max, skip, 1, 0, <<-1, 1>>)

\* place_item without line 436: an item no packer takes is not recorded.
place_item_forgets(vs, unplaced, v, item, zone) ==
    LET x_min == zone_x_min(zone)
        x_max == zone_x_max(zone)
        best_vehicle == best_fit(vs, v, item, x_min, x_max, 0)
        added == IF best_vehicle # 0
                 THEN add_item(vs[best_vehicle], v, item, x_min, x_max)
                 ELSE [packer |-> <<>>, ok |-> FALSE]
        fresh == add_item(VehiclePacker(Len(vs)), v, item, x_min, x_max)
    IN IF added.ok
       THEN [vehicles |-> [vs EXCEPT ![best_vehicle] = added.packer], unplaced |-> unplaced]
       ELSE IF fresh.ok
            THEN [vehicles |-> Append(vs, fresh.packer), unplaced |-> unplaced]
            ELSE [vehicles |-> vs, unplaced |-> unplaced]

\* place_item opening a packer only while there is none.
place_item_single_packer(vs, unplaced, v, item, zone) ==
    LET x_min == zone_x_min(zone)
        x_max == zone_x_max(zone)
        best_vehicle == best_fit(vs, v, item, x_min, x_max, 0)
        added == IF best_vehicle # 0
                 THEN add_item(vs[best_vehicle], v, item, x_min, x_max)
                 ELSE [packer |-> <<>>, ok |-> FALSE]
        fresh == add_item(VehiclePacker(Len(vs)), v, item, x_min, x_max)
    IN IF added.ok
       THEN [vehicles |-> [vs EXCEPT ![best_vehicle] = added.packer], unplaced |-> unplaced]
       ELSE IF fresh.ok /\ vs = <<>>
            THEN [vehicles |-> Append(vs, fresh.packer), unplaced |-> unplaced]
            ELSE [vehicles |-> vs, unplaced |-> Append(unplaced, item)]

\* Lines 409-436: one iteration of the loop of solve over sorted_items.
place_item(vs, unplaced, v, item, zone) ==
    LET x_min == zone_x_min(zone)
        x_max == zone_x_max(zone)
        best_vehicle == best_fit(vs, v, item, x_min, x_max, 0)
        added == IF best_vehicle # 0
                 THEN add_item(vs[best_vehicle], v, item, x_min, x_max)
                 ELSE [packer |-> <<>>, ok |-> FALSE]
        fresh == add_item(VehiclePacker(Len(vs)), v, item, x_min, x_max)
    IN IF added.ok
       THEN [vehicles |-> [vs EXCEPT ![best_vehicle] = added.packer], unplaced |-> unplaced]
       ELSE IF fresh.ok
            THEN [vehicles |-> Append(vs, fresh.packer), unplaced |-> unplaced]
            ELSE [vehicles |-> vs, unplaced |-> Append(unplaced, item)]

\* Lines 464-470: the first packer with the strictly lowest utilization.
RECURSIVE min_util_scan(_, _, _, _, _)
min_util_scan(vs, v, i, target, min_util) ==
    IF i > Len(vs) THEN target
    ELSE IF RatioLess(utilization_rate(vs[i], v), min_util)
         THEN min_util_scan(vs, v, i + 1, i, utilization_rate(vs[i], v))
         ELSE min_util_scan(vs, v, i + 1, target, min_util)

target_vehicle_idx(vs, v) == min_util_scan(vs, v, 1, 0, <<1, 0>>)

\* Line 481: the item of self.items carrying the id (None when there is none).
item_by_id(its, id) ==
    IF \E i \in 1..Len(its) : its[i].id = id
    THEN <<its[CHOOSE i \in 1..Len(its) :
                 its[i].id = id /\ \A j \in 1..(i - 1) : its[j].id # id]>>
    ELSE None

\* Lines 476-483.
RECURSIVE items_to_move(_, _)
items_to_move(its, placements) ==
    IF placements = <<>> THEN <<>>
    ELSE item_by_id(its, Head(placements).item_id) \o items_to_move(its, Tail(placements))

\* Lines 488-510: the host chosen for each item against the packers as they
\* are; <<>> stands for the early "return False".
RECURSIVE temp_placements(_, _, _, _, _, _)
temp_placements(vs, v, moving, zones, use_zones, target) ==
    IF moving = <<>> THEN [ok |-> TRUE, moves |-> <<>>]
    ELSE LET item == Head(moving)
             zone == get_zone_for_item(item, zones, use_zones)
             host == best_fit(vs, v, item, zone_x_min(zone), zone_x_max(zone), target)
             rest == temp_placements(vs, v, Tail(moving), zones, use_zones, target)
         IN IF host = 0 THEN [ok |-> FALSE, moves |-> <<>>]
            ELSE [ok |-> rest.ok,
                  moves |-> <<[host |-> host, item |-> item, zone |-> zone]>> \o rest.moves]

\* apply_moves committing without the x-range of the parcel.
RECURSIVE apply_moves_unzoned(_, _, _)
apply_moves_unzoned(vs, v, moves) ==
    IF moves = <<>> THEN vs
    ELSE LET m == Head(moves)
             r == add_item(vs[m.host], v, m.item, None, None)
         IN apply_moves_unzoned([vs EXCEPT ![m.host] = r.packer], v, Tail(moves))

\* Lines 513-514: add_item on each host in turn, its result not looked at.
RECURSIVE apply_moves(_, _, _)
apply_moves(vs, v, moves) ==
    IF moves = <<>> THEN vs
    ELSE LET m == Head(moves)
             r == add_item(vs[m.host], v, m.item, zone_x_min(m.zone), zone_x_max(m.zone))
         IN apply_moves([vs EXCEPT ![m.host] = r.packer], v, Tail(moves))

\* pop_vehicle cutting the list at the target.
pop_vehicle_cut(vs, target) == SubSeq(vs, 1, target - 1)

\* Line 517: self.vehicles.pop(target_vehicle_idx).
pop_vehicle(vs, target) ==
    [i \in 1..(Len(vs) - 1) |-> IF i < target THEN vs[i] ELSE vs[i + 1]]

\* renumber without lines 522-523: the placements keep their vehicle_id.
renumber_packers_only(vs) ==
    [i \in 1..Len(vs) |-> [vs[i] EXCEPT !.vehicle_id = i - 1]]

\* Lines 520-523.
renumber(vs) ==
    [i \in 1..Len(vs) |->
        [vehicle_id |-> i - 1,
         placements |-> [k \in 1..Len(vs[i].placements) |->
                            [vs[i].placements[k] EXCEPT !.vehicle_id = i - 1]],
         occupied_volume |-> vs[i].occupied_volume]]

try_close_one_vehicle(vs, v, its, zones, use_zones) ==
    IF Len(vs) <= 1 THEN [vehicles |-> vs, improved |-> FALSE]
    ELSE LET target == target_vehicle_idx(vs, v)
         IN IF target < 1 THEN [vehicles |-> vs, improved |-> FALSE]
            ELSE LET moving == items_to_move(its, vs[target].placements)
                     plan == temp_placements(vs, v, moving, zones, use_zones, target)
                 IN IF ~ plan.ok THEN [vehicles |-> vs, improved |-> FALSE]
                    ELSE [vehicles |-> renumber(pop_vehicle(apply_moves(vs, v, plan.moves),
                                                            target)),
                          improved |-> TRUE]

(***************************************************************************)
(* The inputs of a run.                                                    *)
(***************************************************************************)
\* General family: parcels without delivery constraint whose orientation
\* lists take every order, in two vehicle shapes.
VehicleShapes == {<<3, 2, 1>>, <<2, 2, 2>>}

ParcelKinds == {<<1, 1, 2, -1>>, <<1, 2, 2, -1>>}

GeneralInputs ==
    {[vehicle |-> sh, parcels |-> ps, heuristic |-> h, zones |-> FALSE] :
        sh \in VehicleShapes,
        ps \in UNION {[1..n -> ParcelKinds] : n \in 0..MaxItems},
        h \in Heuristics}

\* Zone family: cubes of side 1 or 2 with delivery times -1..MaxDelivery,
\* zones enabled or not.  Cubes sort alike under the four heuristics.
ZoneVehicleShapes == {<<4, 1, 1>>, <<4, 2, 2>>}

CubeKinds == {<<c, c, c, d>> : c \in {1, 2}, d \in -1..MaxDelivery}

ZoneInputs ==
    {[vehicle |-> sh, parcels |-> ps, heuristic |-> "volume", zones |-> z] :
        sh \in ZoneVehicleShapes,
        ps \in UNION {[1..n -> CubeKinds] : n \in 0..MaxItems},
        z \in BOOLEAN}

\* Scenario "Delivery order": vehicle 30x10x10, two 10x10x10 parcels with
\* delivery times 0 and 1.
DeliveryOrderInputs ==
    {[vehicle |-> <<30, 10, 10>>,
      parcels |-> << <<10, 10, 10, 0>>, <<10, 10, 10, 1>> >>,
      heuristic |-> h, zones |-> z] : h \in Heuristics, z \in BOOLEAN}

\* One unit parcel per delivery time 0..SeveralGroups: the fewest groups for
\* which the planner takes the cumulative strategy.
CumulativeInputs ==
    {[vehicle |-> <<10, 1, 1>>,
      parcels |-> [i \in 1..(SeveralGroups + 1) |-> <<1, 1, 1, i - 1>>],
      heuristic |-> h, zones |-> TRUE] : h \in Heuristics}

\* Scenario "Infeasible parcel": vehicle 10x10x10, one parcel 11 1 1 -1.
InfeasibleParcelInputs ==
    {[vehicle |-> <<10, 10, 10>>,
      parcels |-> << <<11, 1, 1, -1>> >>,
      heuristic |-> h, zones |-> z] : h \in Heuristics, z \in BOOLEAN}

\* Two groups, and group counts on both sides of the planner's thresholds,
\* with one parcel or SmallGroupSize parcels per group: unit parcels in a
\* vehicle of length 18, listed from the latest delivery time to the earliest.
StrategyGroupCounts ==
    {2, SeveralGroups, SeveralGroups + 1, ManyGroups - 1, ManyGroups + 1}

StrategyInputs ==
    {[vehicle |-> <<18, 1, 1>>,
      parcels |-> [j \in 1..(k * n) |-> <<1, 1, 1, k - 1 - (j - 1) \div n>>],
      heuristic |-> "volume", zones |-> TRUE] :
        k \in StrategyGroupCounts, n \in {1, SmallGroupSize}}

\* Parcels that the four heuristics rank differently: 2 2 1 leads by volume
\* and base area, 1 1 3 by height and longest side, and 2 2 1 ties with
\* 2 1 1 on height and longest side; one unit parcel has a delivery time.
\* Given in one order and in the reverse order.
HeuristicParcels ==
    {<< <<2, 2, 1, -1>>, <<1, 1, 3, -1>>, <<2, 1, 1, -1>>, <<1, 1, 1, 0>> >>,
     << <<1, 1, 1, 0>>, <<2, 1, 1, -1>>, <<1, 1, 3, -1>>, <<2, 2, 1, -1>> >>}

HeuristicInputs ==
    {[vehicle |-> <<3, 2, 2>>, parcels |-> ps, heuristic |-> h, zones |-> FALSE] :
        ps \in HeuristicParcels, h \in Heuristics}

\* Zones enabled and a vehicle closed by local search: three unit parcels of
\* delivery time 0, mapped to [0, 3] of a vehicle 4 2 2, fill the front row
\* of the first packer, so the unconstrained 2 2 2 parcel opens a second one,
\* into which local search then moves the three.
ZoneClosureParcels ==
    {<< <<1, 1, 1, 0>>, <<1, 1, 1, 0>>, <<1, 1, 1, 0>>, <<2, 2, 2, -1>> >>,
     << <<2, 2, 2, -1>>, <<1, 1, 1, 0>>, <<1, 1, 1, 0>>, <<1, 1, 1, 0>> >>}

ZoneClosureInputs ==
    {[vehicle |-> <<4, 2, 2>>, parcels |-> ps, heuristic |-> h, zones |-> TRUE] :
        ps \in ZoneClosureParcels, h \in Heuristics}

Inputs ==
    GeneralInputs \cup ZoneInputs \cup DeliveryOrderInputs \cup CumulativeInputs
    \cup InfeasibleParcelInputs \cup StrategyInputs \cup HeuristicInputs
    \cup ZoneClosureInputs

\* parse_input builds Item(id = i, ...) for line i; each Item fixes its
\* orientation list when constructed.
RECURSIVE ItemLists(_, _)
ItemLists(parcels, n) ==
    IF n = 0 THEN {<<>>}
    ELSE {Append(s, Item(n - 1, parcels[n][1], parcels[n][2], parcels[n][3], parcels[n][4], os)) :
            s \in ItemLists(parcels, n - 1),
            os \in OrientationLists(parcels[n][1], parcels[n][2], parcels[n][3])}

(***************************************************************************)
(* The state machine: BinPackingSolver.__init__ then solve.                *)
(***************************************************************************)
Init ==
    \E inp \in Inputs :
      \E its \in ItemLists(inp.parcels, Len(inp.parcels)) :
        /\ vehicle_template = Vehicle(inp.vehicle[1], inp.vehicle[2], inp.vehicle[3])
        /\ items = its
        /\ heuristic = inp.heuristic
        /\ use_delivery_zones = inp.zones
        /\ delivery_zones = compute_delivery_groups(
                               its, Vehicle(inp.vehicle[1], inp.vehicle[2], inp.vehicle[3]),
                               inp.zones)
        /\ vehicles = <<>>
        /\ unplaced_items = <<>>
        /\ sorted_items = <<>>
        /\ pc = "start"
        /\ pos = 0
        /\ iteration = 0
        /\ success = FALSE
        /\ call = NoCall

\* solve, line 406.
SolveStart ==
    /\ pc = "start"
    /\ sorted_items' = sort_items(items, heuristic)
    /\ pos' = 1
    /\ pc' = "construct"
    /\ UNCHANGED <<call, vehicle_template, items, heuristic, use_delivery_zones,
                   delivery_zones, vehicles, unplaced_items, iteration, success>>

\* solve, lines 408-436: the loop body for sorted_items[pos].
PlaceItem ==
    /\ pc = "construct"
    /\ pos <= Len(sorted_items)
    /\ LET item == sorted_items[pos]
           r == place_item(vehicles, unplaced_items, vehicle_template, item,
                           get_zone_for_item(item, delivery_zones, use_delivery_zones))
       IN /\ vehicles' = r.vehicles
          /\ unplaced_items' = r.unplaced
    /\ pos' = pos + 1
    /\ UNCHANGED <<call, vehicle_template, items, heuristic, use_delivery_zones,
                   delivery_zones, sorted_items, pc, iteration, success>>

\* solve, lines 439-442 when some item is unplaced; else entry to the local search.
FinishConstruct ==
    /\ pc = "construct"
    /\ pos > Len(sorted_items)
    /\ IF Len(unplaced_items) = 0
       THEN pc' = "local_search" /\ success' = success
       ELSE pc' = "done" /\ success' = FALSE
    /\ iteration' = 0
    /\ UNCHANGED <<call, vehicle_template, items, heuristic, use_delivery_zones,
                   delivery_zones, vehicles, unplaced_items, sorted_items, pos>>

\* _local_search_close_vehicles, lines 449-453: one turn of the while loop;
\* leaving the loop returns to solve, line 442.
LocalSearchIteration ==
    /\ pc = "local_search"
    /\ IF iteration < max_iterations
       THEN LET r == try_close_one_vehicle(vehicles, vehicle_template, items,
                                           delivery_zones, use_delivery_zones)
            IN /\ vehicles' = r.vehicles
               /\ IF r.improved
                  THEN iteration' = iteration + 1 /\ pc' = pc /\ success' = success
                  ELSE iteration' = iteration /\ pc' = "done"
                       /\ success' = (Len(unplaced_items) = 0)
       ELSE /\ vehicles' = vehicles
            /\ iteration' = iteration
            /\ pc' = "done"
            /\ success' = (Len(unplaced_items) = 0)
    /\ UNCHANGED <<call, vehicle_template, items, heuristic, use_delivery_zones,
                   delivery_zones, unplaced_items, sorted_items, pos>>

Next == SolveStart \/ PlaceItem \/ FinishConstruct \/ LocalSearchIteration

Spec == Init /\ [][Next]_vars

(***************************************************************************)
(* A single VehiclePacker driven through its public methods: any sequence  *)
(* of try_add_item_with_score, add_item and remove_item calls, on items    *)
(* built as parse_input builds them.  vehicles holds the one packer.       *)
(***************************************************************************)
PackerVehicleShapes == {<<3, 2, 1>>, <<2, 2, 2>>, <<2, 1, 1>>}

PackerParcels == << <<1, 2, 2, -1>>, <<1, 1, 2, -1>> >>

\* The x-ranges handed to the methods: none, or bounds within the length.
PackerXMin == {None, <<1>>}

PackerXMax == {None, <<2>>}

PackerInit ==
    \E sh \in PackerVehicleShapes :
      \E its \in ItemLists(PackerParcels, Len(PackerParcels)) :
        /\ vehicle_template = Vehicle(sh[1], sh[2], sh[3])
        /\ items = its
        /\ vehicles = <<VehiclePacker(0)>>
        /\ call = NoCall
        /\ heuristic = "volume"
        /\ use_delivery_zones = FALSE
        /\ delivery_zones = <<>>
        /\ unplaced_items = <<>>
        /\ sorted_items = <<>>
        /\ pc = "packer"
        /\ pos = 0
        /\ iteration = 0
        /\ success = FALSE

\* packer.try_add_item_with_score(item, x_min, x_max).
TryAddItemWithScore ==
    \E i \in 1..Len(items), x_min \in PackerXMin, x_max \in PackerXMax :
      LET r == try_add_item_call(vehicles[1], vehicle_template, items[i], x_min, x_max)
      IN /\ pc = "packer"
         /\ vehicles' = <<r.packer>>
         /\ call' = [op |-> "try_add_item_with_score", item_id |-> items[i].id,
                     x_min |-> x_min, x_max |-> x_max, result |-> r.result,
                     before |-> vehicles[1]]
         /\ UNCHANGED <<vehicle_template, items, heuristic, use_delivery_zones,
                        delivery_zones, unplaced_items, sorted_items, pc, pos,
                        iteration, success>>

\* packer.add_item(item, x_min, x_max).
AddItem ==
    \E i \in 1..Len(items), x_min \in PackerXMin, x_max \in PackerXMax :
      LET r == add_item(vehicles[1], vehicle_template, items[i], x_min, x_max)
      IN /\ pc = "packer"
         /\ Len(vehicles[1].placements) < MaxPlacements
         /\ vehicles' = <<r.packer>>
         /\ call' = [op |-> "add_item", item_id |-> items[i].id,
                     x_min |-> x_min, x_max |-> x_max, result |-> r.ok,
                     before |-> vehicles[1]]
         /\ UNCHANGED <<vehicle_template, items, heuristic, use_delivery_zones,
                        delivery_zones, unplaced_items, sorted_items, pc, pos,
                        iteration, success>>

\* packer.remove_item(item_id).
RemoveItem ==
    \E i \in 1..Len(items) :
      LET r == remove_item(vehicles[1], items[i].id)
      IN /\ pc = "packer"
         /\ vehicles' = <<r.packer>>
         /\ call' = [op |-> "remove_item", item_id |-> items[i].id,
                     x_min |-> None, x_max |-> None, result |-> r.ok,
                     before |-> vehicles[1]]
         /\ UNCHANGED <<vehicle_template, items, heuristic, use_delivery_zones,
                        delivery_zones, unplaced_items, sorted_items, pc, pos,
                        iteration, success>>

PackerNext == TryAddItemWithScore \/ AddItem \/ RemoveItem

PackerSpec == PackerInit /\ [][PackerNext]_vars

(***************************************************************************)
(* A single Item built by its constructor and asked for its fitting        *)
(* orientations in a vehicle.  items holds the one item.                   *)
(***************************************************************************)
OrientationVehicleShapes == {<<3, 2, 1>>, <<2, 2, 2>>, <<3, 3, 3>>}

\* Item(0, l, w, h, -1): __post_init__ fills in the orientation list.
OrientationInit ==
    \E sh \in OrientationVehicleShapes :
      \E l \in 1..MaxSide, w \in 1..MaxSide, h \in 1..MaxSide :
        \E os \in OrientationLists(l, w, h) :
          /\ vehicle_template = Vehicle(sh[1], sh[2], sh[3])
          /\ items = <<Item(0, l, w, h, -1, os)>>
          /\ vehicles = <<>>
          /\ call = NoCall
          /\ heuristic = "volume"
          /\ use_delivery_zones = FALSE
          /\ delivery_zones = <<>>
          /\ unplaced_items = <<>>
          /\ sorted_items = <<>>
          /\ pc = "item"
          /\ pos = 0
          /\ iteration = 0
          /\ success = FALSE

\* item.filter_orientations(vehicle).
FilterOrientations ==
    /\ pc = "item"
    /\ call.op = "none"
    /\ call' = [op |-> "filter_orientations",
                result |-> filter_orientations(items[1], vehicle_template)]
    /\ UNCHANGED <<vehicle_template, items, heuristic, use_delivery_zones,
                   delivery_zones, vehicles, unplaced_items, sorted_items, pc, pos,
                   iteration, success>>

OrientationNext == FilterOrientations

OrientationSpec == OrientationInit /\ [][OrientationNext]_vars

(***************************************************************************)
(* Properties.                                                             *)
(***************************************************************************)
Packers == 1..Len(vehicles)

PlacementsOf(i) == Range(vehicles[i].placements)

AllPlacements == UNION {PlacementsOf(i) : i \in Packers}

PlacedIds == {p.item_id : p \in AllPlacements}

ItemOf(p) == CHOOSE it \in Range(items) : it.id = p.item_id

\* Intervals [a, b) and [c, d) overlap.
IntervalsOverlap(a, b, c, d) == a < d /\ c < b

BoxesOverlap(p, q) ==
    /\ IntervalsOverlap(p.x, p.x + p.length, q.x, q.x + q.length)
    /\ IntervalsOverlap(p.y, p.y + p.width, q.y, q.y + q.width)
    /\ IntervalsOverlap(p.z, p.z + p.height, q.z, q.z + q.height)

Sort3(a, b, c) ==
    LET lo == Min2(a, Min2(b, c))
        hi == Max2(a, Max2(b, c))
    IN <<lo, a + b + c - lo - hi, hi>>

\* C1: in every state of solve (constructive phase and every local-search
\* iteration) no two placements held by the same packer have overlapping
\* boxes [x, x+lx) x [y, y+ly) x [z, z+lz).
C1_NoOverlap ==
    \A i \in Packers :
      \A j, k \in 1..Len(vehicles[i].placements) :
        j < k => ~ BoxesOverlap(vehicles[i].placements[j], vehicles[i].placements[k])

\* A local-search iteration has closed a vehicle and a packer holds three
\* placements, none overlapping another.
C1_Witness ==
    /\ iteration >= 1
    /\ \E i \in Packers : Len(vehicles[i].placements) >= 3

\* C2: every placement held by a packer has a non-negative origin and lies
\* inside the vehicle shape: x+lx <= L, y+ly <= W, z+lz <= H.
C2_Containment ==
    \A p \in AllPlacements :
      /\ p.x >= 0 /\ p.y >= 0 /\ p.z >= 0
      /\ p.x + p.length <= vehicle_template.length
      /\ p.y + p.width <= vehicle_template.width
      /\ p.z + p.height <= vehicle_template.height

\* A placement committed under an x-range, away from the origin and reaching
\* the far face of the vehicle.
C2_Witness ==
    \E p \in AllPlacements :
      /\ p.x > 0 /\ p.x + p.length = vehicle_template.length
      /\ get_zone_for_item(ItemOf(p), delivery_zones, use_delivery_zones) # None

\* C3: the multiset {lx, ly, lz} of a placement equals the multiset of the
\* length, width and height of the parcel whose index it carries.
C3_DimensionMultiset ==
    \A p \in AllPlacements :
      \E it \in Range(items) :
        /\ it.id = p.item_id
        /\ Sort3(p.length, p.width, p.height) = Sort3(it.length, it.width, it.height)

\* A parcel placed in an orientation other than its input one.
C3_Witness ==
    \E p \in AllPlacements :
      <<p.length, p.width, p.height>> #
        <<ItemOf(p).length, ItemOf(p).width, ItemOf(p).height>>

\* C4: whenever solve reports success the placements hold exactly one
\* placement for every parcel index 0..N-1.
C4_SuccessPlacesAll ==
    (pc = "done" /\ success) =>
        \A id \in 0..(Len(items) - 1) :
          Cardinality({p \in AllPlacements : p.item_id = id}) = 1

\* C5: a local-search iteration never makes a placed parcel unplaced.
C5_LocalSearchKeepsParcels ==
    [][pc = "local_search" => PlacedIds \subseteq PlacedIds']_vars

\* C6: each local-search iteration removes exactly one packer or leaves the
\* packer count unchanged, so the count after local search is at most the
\* count before it.
C6_PackerCountMonotone ==
    [][pc = "local_search" =>
          \/ Len(vehicles') = Len(vehicles)
          \/ Len(vehicles') = Len(vehicles) - 1]_vars

\* Local search has closed a vehicle of a run that needed several.
C6_Witness ==
    /\ pc = "done"
    /\ iteration >= 1
    /\ Len(vehicles) >= 1

\* C7: with zones enabled, a placement whose parcel's delivery time is mapped
\* to [x_min, x_max] satisfies x_min <= x0 and x0 + lx <= x_max.
C7_ZoneRespect ==
    use_delivery_zones =>
      \A p \in AllPlacements :
        \A it \in Range(items) :
          (it.id = p.item_id /\ it.delivery_time \in DOMAIN delivery_zones) =>
             /\ delivery_zones[it.delivery_time][1] <= p.x
             /\ p.x + p.length <= delivery_zones[it.delivery_time][2]

\* Local search closed a vehicle by moving constrained parcels into the
\* packer left, one of them flush against the end of a zone that stops short
\* of the vehicle's length, where a free anchor lay beyond the zone.
C7_Witness ==
    /\ use_delivery_zones
    /\ pc = "done"
    /\ iteration >= 1
    /\ Len(vehicles) = 1
    /\ \E p \in AllPlacements :
         /\ ItemOf(p).delivery_time >= 0
         /\ ItemOf(p).delivery_time \in DOMAIN delivery_zones
         /\ p.x > 0
         /\ p.x + p.length = delivery_zones[ItemOf(p).delivery_time][2]
         /\ delivery_zones[ItemOf(p).delivery_time][2] < vehicle_template.length
         /\ ~ \E q \in AllPlacements :
                /\ IntervalsOverlap(p.x + p.length, p.x + p.length + 1, q.x, q.x + q.length)
                /\ IntervalsOverlap(p.y, p.y + p.width, q.y, q.y + q.width)
                /\ IntervalsOverlap(p.z, p.z + p.height, q.z, q.z + q.height)

\* The parcel of the current constructive step, its x-range and the score
\* each existing packer gives it.
StepItem == sorted_items[pos]

StepZone == get_zone_for_item(StepItem, delivery_zones, use_delivery_zones)

StepScore(i) ==
    try_add_item_with_score(vehicles[i], vehicle_template, StepItem,
                            zone_x_min(StepZone), zone_x_max(StepZone))

HoldsItem(packer, id) == \E p \in Range(packer.placements) : p.item_id = id

\* C8: in the constructive phase a parcel that some existing packer accepts
\* is committed into the accepting packer with the highest post-placement
\* utilization, the earliest such packer on ties, and no packer is spawned;
\* a packer is spawned only when no existing packer accepts the parcel.
C8_BestFit ==
    [][(pc = "construct" /\ pos <= Len(sorted_items)) =>
          IF \E i \in Packers : StepScore(i) # None
          THEN /\ Len(vehicles') = Len(vehicles)
               /\ \E i \in Packers :
                    /\ StepScore(i) # None
                    /\ HoldsItem(vehicles'[i], StepItem.id)
                    /\ Len(vehicles'[i].placements) = Len(vehicles[i].placements) + 1
                    /\ \A j \in Packers \ {i} : vehicles'[j] = vehicles[j]
                    /\ \A j \in Packers :
                         StepScore(j) # None =>
                           /\ ~ RatioLess(StepScore(i), StepScore(j))
                           /\ (j < i => RatioLess(StepScore(j), StepScore(i)))
          ELSE /\ \A j \in Packers : vehicles'[j] = vehicles[j]
               /\ \/ /\ Len(vehicles') = Len(vehicles) + 1
                     /\ HoldsItem(vehicles'[Len(vehicles')], StepItem.id)
                  \/ /\ Len(vehicles') = Len(vehicles)
                     /\ unplaced_items' = Append(unplaced_items, StepItem)]_vars

\* The parcel just committed went into a later, fuller packer although the
\* first packer accepts it too.
C8_Witness ==
    /\ pc = "construct"
    /\ pos > 1
    /\ \E i \in Packers :
         /\ i >= 2
         /\ Len(vehicles[i].placements) >= 2
         /\ vehicles[i].placements[Len(vehicles[i].placements)].item_id
              = sorted_items[pos - 1].id
         /\ LET item == sorted_items[pos - 1]
                zone == get_zone_for_item(item, delivery_zones, use_delivery_zones)
            IN try_add_item_with_score(vehicles[1], vehicle_template, item,
                                       zone_x_min(zone), zone_x_max(zone)) # None

\* C9: with zones enabled, two placements in the same vehicle whose parcels
\* have delivery times 0 <= d1 < d2 satisfy x0(d1 parcel) >= x0(d2 parcel).
C9_EarlierDeliveryAtLargerX ==
    use_delivery_zones =>
      \A i \in Packers :
        \A p, q \in PlacementsOf(i) :
          (/\ ItemOf(p).delivery_time >= 0
           /\ ItemOf(p).delivery_time < ItemOf(q).delivery_time) => p.x >= q.x

\* C10: scenario "Delivery order": vehicle 30x10x10, two 10x10x10 parcels
\* with delivery times 0 and 1, zones enabled: both parcels are placed and
\* the parcel with delivery time 0 has x0 >= the x0 of the other.
C10_DeliveryOrderScenario ==
    (/\ pc = "done"
     /\ use_delivery_zones
     /\ vehicle_template = Vehicle(30, 10, 10)
     /\ Len(items) = 2
     /\ \A i \in 1..2 : /\ items[i].length = 10 /\ items[i].width = 10
                        /\ items[i].height = 10 /\ items[i].delivery_time = i - 1)
    => /\ success
       /\ PlacedIds = {0, 1}
       /\ \A p, q \in AllPlacements : (p.item_id = 0 /\ q.item_id = 1) => p.x >= q.x

(***************************************************************************)
(* Properties of the packer methods, checked under PackerSpec.             *)
(***************************************************************************)
\* The packer before and after a step, and the item of the call just made.
Packer == vehicles[1]

CallItem == item_by_id(items, call.item_id)[1]

PlacementVolume(p) == p.length * p.width * p.height

\* The box of extents o at origin (x, y, z) is a valid placement in packer
\* under the x-range: inside the vehicle, within [x_min, x_max], clear of
\* every placement the packer holds.
ValidPlacement(packer, v, o, x, y, z, x_min, x_max) ==
    /\ x + o[1] <= v.length /\ y + o[2] <= v.width /\ z + o[3] <= v.height
    /\ (x_min # None => x_min[1] <= x)
    /\ (x_max # None => x + o[1] <= x_max[1])
    /\ \A p \in Range(packer.placements) :
         ~ (/\ IntervalsOverlap(x, x + o[1], p.x, p.x + p.length)
            /\ IntervalsOverlap(y, y + o[2], p.y, p.y + p.width)
            /\ IntervalsOverlap(z, z + o[3], p.z, p.z + p.height))

ValidPlacementExists(packer, v, item, x_min, x_max) ==
    \E o \in Range(all_orientations(item.length, item.width, item.height)) :
      \E x \in 0..v.length, y \in 0..v.width, z \in 0..v.height :
        ValidPlacement(packer, v, o, x, y, z, x_min, x_max)

\* C11: try_add_item_with_score returns None if and only if no orientation
\* and integer origin give a box inside the vehicle, within the x-range and
\* overlapping no placement of the packer.
C11_TryPlaceNoneIffNoPlacement ==
    [][call'.op = "try_add_item_with_score" =>
          ((call'.result = None) <=>
             ~ ValidPlacementExists(Packer, vehicle_template, CallItem',
                                    call'.x_min, call'.x_max))]_vars

\* C12: try_add_item_with_score leaves the packer's placement list, occupied
\* volume and vehicle index as they were, whether it returns a score or None.
C12_TryPlaceDoesNotMutate ==
    [][call'.op = "try_add_item_with_score" =>
          /\ Packer'.placements = Packer.placements
          /\ Packer'.occupied_volume = Packer.occupied_volume
          /\ Packer'.vehicle_id = Packer.vehicle_id]_vars

\* A score was returned for a packer that already holds two placements.
C12_Witness ==
    /\ call.op = "try_add_item_with_score"
    /\ call.result # None
    /\ Len(Packer.placements) >= 2

\* C13: add_item returns True exactly when try_add_item_with_score on the
\* same packer state and arguments returns a score; that score equals
\* occupied volume / vehicle volume right after the commit; when add_item
\* returns False the packer is unchanged.
C13_TryCommitAgree ==
    [][call'.op = "add_item" =>
          LET score == try_add_item_with_score(Packer, vehicle_template, CallItem',
                                               call'.x_min, call'.x_max)
          IN /\ (score # None) <=> call'.result
             /\ call'.result =>
                  score[1] * vehicle_volume(vehicle_template)
                    = Packer'.occupied_volume * score[2]
             /\ ~ call'.result => Packer' = Packer]_vars

\* A commit under an x-range succeeded on a packer holding a placement.
C13_Witness ==
    /\ call.op = "add_item"
    /\ call.result
    /\ call.x_min # None /\ call.x_max # None
    /\ Len(Packer.placements) >= 2

\* C14: after any sequence of add_item and remove_item calls the packer's
\* occupied_volume is the sum of lx*ly*lz over the placements it holds.
C14_CachedOccupiedVolume ==
    Packer.occupied_volume
      = SumSeq([k \in 1..Len(Packer.placements) |-> PlacementVolume(Packer.placements[k])])

\* A removal succeeded and left placements behind.
C14_Witness ==
    /\ call.op = "remove_item"
    /\ call.result
    /\ Len(Packer.placements) >= 2
    /\ Packer.occupied_volume > 0

\* C20: remove_item(id) on a packer holding a placement with that id returns
\* True, removes exactly one such placement, lowers occupied_volume by its
\* lx*ly*lz and keeps the other placements in order; on a packer holding
\* none it returns False and changes nothing.
C20_Remove ==
    [][call'.op = "remove_item" =>
          IF \E p \in Range(Packer.placements) : p.item_id = call'.item_id
          THEN /\ call'.result
               /\ Packer'.vehicle_id = Packer.vehicle_id
               /\ Len(Packer'.placements) = Len(Packer.placements) - 1
               /\ \E i \in 1..Len(Packer.placements) :
                    /\ Packer.placements[i].item_id = call'.item_id
                    /\ \A k \in 1..(i - 1) : Packer'.placements[k] = Packer.placements[k]
                    /\ \A k \in i..Len(Packer'.placements) :
                         Packer'.placements[k] = Packer.placements[k + 1]
                    /\ Packer'.occupied_volume
                         = Packer.occupied_volume - PlacementVolume(Packer.placements[i])
          ELSE /\ ~ call'.result
               /\ Packer' = Packer]_vars

\* A removal took one of two placements carrying the same parcel index.
C20_Witness ==
    /\ call.op = "remove_item"
    /\ call.result
    /\ \E p \in Range(Packer.placements) : p.item_id = call.item_id

\* The anchors the search may use in a packer: the origin and the three
\* next corners of each placement, inside the vehicle, with x in [x_min, x_max).
SearchAnchors(packer, v, x_min, x_max) ==
    {c \in {<<0, 0, 0>>}
           \cup UNION {{<<p.x + p.length, p.y, p.z>>,
                        <<p.x, p.y + p.width, p.z>>,
                        <<p.x, p.y, p.z + p.height>>} : p \in Range(packer.placements)} :
        /\ c[1] < v.length /\ c[2] < v.width /\ c[3] < v.height
        /\ (x_min # None => x_min[1] <= c[1])
        /\ (x_max # None => c[1] < x_max[1])}

\* The anchors at which the box of extents o is a valid placement.
FeasibleAnchors(packer, v, o, x_min, x_max) ==
    {c \in SearchAnchors(packer, v, x_min, x_max) :
        ValidPlacement(packer, v, o, c[1], c[2], c[3], x_min, x_max)}

ZYXLess(a, b) ==
    \/ a[3] < b[3]
    \/ a[3] = b[3] /\ a[2] < b[2]
    \/ a[3] = b[3] /\ a[2] = b[2] /\ a[1] < b[1]

LastPlacement(packer) == packer.placements[Len(packer.placements)]

\* C27: the placement search is orientation-major: a successful add_item
\* commits the first orientation, in the order of the item's fitting
\* orientations, that is feasible at some candidate anchor, at the
\* (z, y, x)-smallest anchor feasible for it; the candidate anchors are
\* (0,0,0) and the next corners of the placements already held that lie
\* inside the vehicle with x in [x_min, x_max).
C27_OrientationMajorSearch ==
    (call.op = "add_item" /\ call.result) =>
      LET os == filter_orientations(CallItem, vehicle_template)
          p == LastPlacement(Packer)
          origin == <<p.x, p.y, p.z>>
      IN \E k \in 1..Len(os) :
           /\ os[k] = <<p.length, p.width, p.height>>
           /\ \A j \in 1..(k - 1) :
                FeasibleAnchors(call.before, vehicle_template, os[j],
                                call.x_min, call.x_max) = {}
           /\ origin \in FeasibleAnchors(call.before, vehicle_template, os[k],
                                          call.x_min, call.x_max)
           /\ \A c \in FeasibleAnchors(call.before, vehicle_template, os[k],
                                        call.x_min, call.x_max) :
                c = origin \/ ZYXLess(origin, c)

\* add_item passed over the (z, y, x)-smallest free anchor, where only a
\* later orientation fits, and committed the first orientation further on.
C27_Witness ==
    /\ call.op = "add_item"
    /\ call.result
    /\ LET os == filter_orientations(CallItem, vehicle_template)
           p == LastPlacement(Packer)
       IN /\ Len(os) >= 2
          /\ os[1] = <<p.length, p.width, p.height>>
          /\ \E c \in FeasibleAnchors(call.before, vehicle_template, os[2],
                                        call.x_min, call.x_max) :
               ZYXLess(c, <<p.x, p.y, p.z>>)

HoldsParcel(packer, id) ==
    \E k \in 1..Len(packer.placements) : packer.placements[k].item_id = id

\* C30: for a packer holding no placement of parcel p, a successful
\* add_item of p followed by remove_item(p.id) succeeds and restores the
\* packer exactly: the same placement list in the same order and the same
\* occupied volume as before the add_item.
C30_AddRemoveRestores ==
    [][(/\ call.op = "add_item"
        /\ call.result
        /\ ~ HoldsParcel(call.before, call.item_id)
        /\ call'.op = "remove_item"
        /\ call'.item_id = call.item_id) =>
          /\ call'.result
          /\ Packer'.placements = call.before.placements
          /\ Packer'.occupied_volume = call.before.occupied_volume
          /\ Packer' = call.before]_vars

\* remove_item took away the last placement, the only one of its parcel, of
\* a packer that keeps another placement: the packer a successful add_item
\* of that parcel leaves.
C30_Witness ==
    /\ call.op = "remove_item"
    /\ call.result
    /\ Len(call.before.placements) >= 2
    /\ LastPlacement(call.before).item_id = call.item_id
    /\ \A k \in 1..(Len(call.before.placements) - 1) :
         call.before.placements[k].item_id # call.item_id
    /\ Len(Packer.placements) = Len(call.before.placements) - 1

(***************************************************************************)
(* Further properties of solve, checked under Spec.                        *)
(***************************************************************************)
\* The volume of the parcel a placement carries.
ParcelVolume(p) == ItemOf(p).length * ItemOf(p).width * ItemOf(p).height

PlacedVolume(i) ==
    SumSeq([k \in 1..Len(vehicles[i].placements) |-> ParcelVolume(vehicles[i].placements[k])])

\* C15: in every state of solve the volumes of the parcels a packer holds sum
\* to at most the vehicle volume, and its utilization lies in [0, 1].
C15_VolumeBound ==
    \A i \in Packers :
      /\ PlacedVolume(i) <= vehicle_volume(vehicle_template)
      /\ ~ RatioLess(utilization_rate(vehicles[i], vehicle_template), <<0, 1>>)
      /\ ~ RatioLess(<<1, 1>>, utilization_rate(vehicles[i], vehicle_template))

\* A vehicle filled to the last unit of volume by several parcels, after the
\* local search closed another one.
C15_Witness ==
    /\ pc = "done"
    /\ iteration >= 1
    /\ \E i \in Packers :
         /\ Len(vehicles[i].placements) >= 2
         /\ PlacedVolume(i) = vehicle_volume(vehicle_template)

\* C16: once the constructive phase is over (and after every local-search
\* deletion and renumbering) the packer at list position i has vehicle index
\* i, each of its placements carries index i, and it holds at least one
\* placement: the indices in the placements are exactly 0..m-1.
C16_DenseVehicleIndices ==
    pc \in {"local_search", "done"} =>
      /\ \A i \in Packers :
           /\ vehicles[i].vehicle_id = i - 1
           /\ \A p \in PlacementsOf(i) : p.vehicle_id = i - 1
           /\ Len(vehicles[i].placements) >= 1
      /\ {p.vehicle_id : p \in AllPlacements} = 0..(Len(vehicles) - 1)

\* Local search closed the first vehicle: the packer now first in the list
\* was created later and no longer starts with the first parcel of the order.
C16_Witness ==
    /\ pc = "done"
    /\ iteration >= 1
    /\ Len(vehicles) >= 1
    /\ vehicles[1].placements[1].item_id # sorted_items[1].id

\* The parcel exceeds the vehicle shape on every permutation of its sides.
Infeasible(it) ==
    \A o \in Range(all_orientations(it.length, it.width, it.height)) :
      \/ o[1] > vehicle_template.length
      \/ o[2] > vehicle_template.width
      \/ o[3] > vehicle_template.height

UnplacedIds == {unplaced_items[k].id : k \in 1..Len(unplaced_items)}

\* C17: when solve ends on an input with a parcel that exceeds the vehicle
\* shape on every permutation, that parcel is in the unplaced list, every
\* other parcel is either placed or in the unplaced list, and solve reports
\* failure.
C17_InfeasibleParcel ==
    (pc = "done" /\ \E it \in Range(items) : Infeasible(it)) =>
      /\ \A it \in Range(items) : Infeasible(it) => it.id \in UnplacedIds
      /\ \A it \in Range(items) :
           (it.id \in UnplacedIds) # (it.id \in PlacedIds)
      /\ ~ success

\* An infeasible parcel was recorded unplaced and a parcel after it in the
\* sorted order was placed.
C17_Witness ==
    /\ pc = "done"
    /\ ~ success
    /\ \E j, k \in 1..Len(sorted_items) :
         /\ j < k
         /\ Infeasible(sorted_items[j])
         /\ sorted_items[j].id \in UnplacedIds
         /\ sorted_items[k].id \in PlacedIds

\* The quantity the chosen heuristic sorts by, larger first.
HeuristicMeasure(it) ==
    CASE heuristic = "volume" -> it.length * it.width * it.height
      [] heuristic = "longest_side" -> Max2(it.length, Max2(it.width, it.height))
      [] heuristic = "area" -> it.length * it.width
      [] heuristic = "height" -> it.height

SamePrimary(a, b) ==
    \/ a.delivery_time < 0 /\ b.delivery_time < 0
    \/ a.delivery_time >= 0 /\ a.delivery_time = b.delivery_time

\* C19: the sorted order is a permutation of the input parcels that puts the
\* constrained parcels first, by ascending delivery time, then within equal
\* primary key by descending heuristic measure, then in input order.
C19_SortOrder ==
    pc \in {"construct", "local_search", "done"} =>
      /\ Len(sorted_items) = Len(items)
      /\ \A it \in Range(items) :
           Cardinality({k \in 1..Len(sorted_items) : sorted_items[k] = it})
             = Cardinality({k \in 1..Len(items) : items[k] = it})
      /\ \A j, k \in 1..Len(sorted_items) :
           j < k =>
             LET a == sorted_items[j]
                 b == sorted_items[k]
             IN /\ ~ (a.delivery_time < 0 /\ b.delivery_time >= 0)
                /\ (a.delivery_time >= 0 /\ b.delivery_time >= 0)
                     => a.delivery_time <= b.delivery_time
                /\ SamePrimary(a, b) => HeuristicMeasure(a) >= HeuristicMeasure(b)
                /\ (SamePrimary(a, b) /\ HeuristicMeasure(a) = HeuristicMeasure(b))
                     => a.id < b.id

\* Under the height or longest-side heuristic the sort moved a constrained
\* parcel ahead of an unconstrained one given before it, moved a parcel of
\* larger measure ahead of one given before it, and kept two parcels with
\* equal keys in input order.
C19_Witness ==
    /\ pc = "construct"
    /\ heuristic \in {"longest_side", "height"}
    /\ \E j, k \in 1..Len(sorted_items) :
         /\ j < k
         /\ sorted_items[j].id > sorted_items[k].id
         /\ sorted_items[j].delivery_time >= 0
         /\ sorted_items[k].delivery_time < 0
    /\ \E j, k \in 1..Len(sorted_items) :
         /\ j < k
         /\ sorted_items[j].id > sorted_items[k].id
         /\ SamePrimary(sorted_items[j], sorted_items[k])
         /\ HeuristicMeasure(sorted_items[j]) > HeuristicMeasure(sorted_items[k])
    /\ \E j, k \in 1..Len(sorted_items) :
         /\ j < k
         /\ SamePrimary(sorted_items[j], sorted_items[k])
         /\ HeuristicMeasure(sorted_items[j]) = HeuristicMeasure(sorted_items[k])

(***************************************************************************)
(* Properties of the delivery-zone map, checked under Spec.                *)
(***************************************************************************)
\* The constrained delivery times of the input and their number.
GroupTimes == {items[k].delivery_time : k \in 1..Len(items)} \cap Nat

GroupCount == Cardinality(GroupTimes)

ConstrainedCount == Cardinality({k \in 1..Len(items) : items[k].delivery_time >= 0})

EarliestTime == CHOOSE d \in GroupTimes : \A t \in GroupTimes : d <= t

LatestTime == CHOOSE d \in GroupTimes : \A t \in GroupTimes : t <= d

\* The 0-based ordinal of delivery time d among the constrained times.
Ordinal(d) == Cardinality({t \in GroupTimes : t < d})

\* k > 20, or k > 10 with fewer than 3 parcels per group on average.
CumulativeCase ==
    \/ GroupCount > 20
    \/ GroupCount > 10 /\ ConstrainedCount < 3 * GroupCount

\* floor(L * (0.4 + 0.6 * (1 - i / max(k - 1, 1)))) in exact arithmetic.
FloorXMax(L, i, k) ==
    LET m == Max2(k - 1, 1)
    IN (L * (4 * m + 6 * (m - i))) \div (10 * m)

\* C21: every interval of the delivery-zone map satisfies
\* 0 <= x_min <= x_max <= L, and the entry of delivery time -1, when
\* present, is [0, L].
C21_ZoneIntervals ==
    /\ \A d \in DOMAIN delivery_zones :
         /\ 0 <= delivery_zones[d][1]
         /\ delivery_zones[d][1] <= delivery_zones[d][2]
         /\ delivery_zones[d][2] <= vehicle_template.length
    /\ (-1 \in DOMAIN delivery_zones) =>
         delivery_zones[-1] = <<0, vehicle_template.length>>

\* A map with two constrained groups, the earlier one squeezed into what
\* the later one left, and an entry for the unconstrained parcels.
C21_Witness ==
    /\ use_delivery_zones
    /\ -1 \in DOMAIN delivery_zones
    /\ GroupCount >= 2
    /\ ~ CumulativeCase
    /\ delivery_zones[EarliestTime][1] > 0
    /\ delivery_zones[EarliestTime][2] - delivery_zones[EarliestTime][1]
         < delivery_zones[LatestTime][2] - delivery_zones[LatestTime][1]

\* C22: under the proportional strategy with at least one constrained group
\* the interval of the latest delivery time starts at 0 and the interval of
\* the earliest delivery time ends at L.
C22_ProportionalEnds ==
    (use_delivery_zones /\ GroupCount >= 1 /\ ~ CumulativeCase) =>
      /\ delivery_zones[LatestTime][1] = 0
      /\ delivery_zones[EarliestTime][2] = vehicle_template.length

\* C22 as amended: under the proportional strategy with at least one
\* constrained group the interval of the latest delivery time starts at 0,
\* each earlier group's interval starts where the next later group's ends,
\* and the interval of the earliest delivery time ends at or before L.
C22_ProportionalChain ==
    (use_delivery_zones /\ GroupCount >= 1 /\ ~ CumulativeCase) =>
      /\ delivery_zones[LatestTime][1] = 0
      /\ \A d, t \in GroupTimes :
           Ordinal(t) = Ordinal(d) + 1 => delivery_zones[d][1] = delivery_zones[t][2]
      /\ delivery_zones[EarliestTime][2] <= vehicle_template.length

\* A proportional map of two groups whose earliest interval stops short of L.
C22_Witness ==
    /\ use_delivery_zones
    /\ GroupCount >= 2
    /\ ~ CumulativeCase
    /\ delivery_zones[EarliestTime][1] > 0
    /\ delivery_zones[EarliestTime][2] < vehicle_template.length

\* C23: the cumulative strategy is used exactly when k > 20 or (k > 10 and
\* the average group size is below 3); under it the group at ordinal i gets
\* x_min = 0 and x_max = floor(L * (0.4 + 0.6 * (1 - i / max(k - 1, 1)))), so
\* x_max is non-increasing in i, L for the earliest group and floor(0.4 * L)
\* for the latest; otherwise the intervals of consecutive groups abut.
C23_CumulativeStrategy ==
    (use_delivery_zones /\ GroupCount >= 2) =>
      IF CumulativeCase
      THEN /\ \A d \in GroupTimes :
                delivery_zones[d]
                  = <<0, FloorXMax(vehicle_template.length, Ordinal(d), GroupCount)>>
           /\ \A d, t \in GroupTimes :
                d < t => delivery_zones[d][2] >= delivery_zones[t][2]
           /\ delivery_zones[EarliestTime][2] = vehicle_template.length
           /\ delivery_zones[LatestTime][2] = (4 * vehicle_template.length) \div 10
      ELSE \A d, t \in GroupTimes :
             Ordinal(t) = Ordinal(d) + 1 => delivery_zones[d][1] = delivery_zones[t][2]

(***************************************************************************)
(* Properties of the orientation lists, checked under OrientationSpec.     *)
(***************************************************************************)
\* The axis-aligned orientations of a box: the rearrangements of its sides.
SidePermutations(it) ==
    LET a == it.length
        b == it.width
        c == it.height
    IN {<<a, b, c>>, <<a, c, b>>, <<b, a, c>>, <<b, c, a>>, <<c, a, b>>, <<c, b, a>>}

DistinctSides(it) == Cardinality({it.length, it.width, it.height})

\* C24: a parcel's orientation list holds the distinct rearrangements of its
\* three sides, each once (one for a cube, three with exactly two equal
\* sides, six with three different sides), and its fitting orientations in a
\* vehicle are exactly those with lx <= L, ly <= W and lz <= H.
C24_Orientations ==
    \A k \in 1..Len(items) :
      LET it == items[k]
      IN /\ Range(it.orientations) = SidePermutations(it)
         /\ Len(it.orientations) = Cardinality(SidePermutations(it))
         /\ Len(it.orientations) = CASE DistinctSides(it) = 1 -> 1
                                      [] DistinctSides(it) = 2 -> 3
                                      [] OTHER -> 6
         /\ call.op = "filter_orientations" =>
              /\ Range(call.result) = {o \in SidePermutations(it) :
                                         o[1] <= vehicle_template.length
                                         /\ o[2] <= vehicle_template.width
                                         /\ o[3] <= vehicle_template.height}
              /\ Len(call.result) = Cardinality(Range(call.result))

\* A parcel of three different sides with six orientations, of which the
\* vehicle admits some and not others.
C24_Witness ==
    /\ call.op = "filter_orientations"
    /\ Len(items[1].orientations) = 6
    /\ Len(call.result) >= 1
    /\ Len(call.result) < 6

(***************************************************************************)
(* Properties of one local-search iteration, checked under Spec.           *)
(***************************************************************************)
\* The iteration about to run looks for hosts: several packers, a turn left.
SearchingHosts ==
    /\ pc = "local_search"
    /\ iteration < max_iterations
    /\ Len(vehicles) > 1

SearchTarget == target_vehicle_idx(vehicles, vehicle_template)

\* The parcels the target packer holds.
TargetParcels ==
    {it \in Range(items) :
       \E k \in 1..Len(vehicles[SearchTarget].placements) :
         vehicles[SearchTarget].placements[k].item_id = it.id}

\* Some packer other than the target accepts the parcel under its x-range.
HasHost(it) ==
    LET zone == get_zone_for_item(it, delivery_zones, use_delivery_zones)
    IN \E i \in (1..Len(vehicles)) \ {SearchTarget} :
         try_add_item_with_score(vehicles[i], vehicle_template, it,
                                 zone_x_min(zone), zone_x_max(zone)) # None

\* Some add_item of the commit loop over the accepted placements fails.
RECURSIVE CommitFails(_, _, _)
CommitFails(vs, v, moves) ==
    IF moves = <<>> THEN FALSE
    ELSE LET m == Head(moves)
             r == add_item(vs[m.host], v, m.item, zone_x_min(m.zone), zone_x_max(m.zone))
         IN ~ r.ok \/ CommitFails([vs EXCEPT ![m.host] = r.packer], v, Tail(moves))

SearchPlan ==
    temp_placements(vehicles, vehicle_template,
                    items_to_move(items, vehicles[SearchTarget].placements),
                    delivery_zones, use_delivery_zones, SearchTarget)

\* C25: in a local-search iteration where every parcel of the target packer
\* found a virtual host, if a live commit of one of the accepted placements
\* fails, the iteration reports no improvement (local search ends, the
\* iteration count stays) and the target packer stays in the packer list
\* with its placements.
C25_FailedCommitKeepsTarget ==
    [][(SearchingHosts /\ SearchPlan.ok
        /\ CommitFails(vehicles, vehicle_template, SearchPlan.moves)) =>
          /\ pc' = "done"
          /\ iteration' = iteration
          /\ Len(vehicles') = Len(vehicles)
          /\ vehicles'[SearchTarget].placements = vehicles[SearchTarget].placements]_vars

\* C26: local search looks for hosts only among the packers other than the
\* target, and when some parcel of the target finds no host the iteration
\* changes nothing and local search stops.
C26_NoHostNoChange ==
    [][(SearchingHosts /\ \E it \in TargetParcels : ~ HasHost(it)) =>
          /\ vehicles' = vehicles
          /\ pc' = "done"
          /\ iteration' = iteration
          /\ unplaced_items' = unplaced_items]_vars

\* Local search stopped at once: a parcel of the least-filled packer had no
\* host among the others although the target itself had room for one more.
C26_Witness ==
    /\ pc = "done"
    /\ success
    /\ iteration = 0
    /\ Len(vehicles) > 1
    /\ \E it \in TargetParcels :
         /\ ~ HasHost(it)
         /\ LET zone == get_zone_for_item(it, delivery_zones, use_delivery_zones)
            IN try_add_item_with_score(vehicles[SearchTarget], vehicle_template, it,
                                       zone_x_min(zone), zone_x_max(zone)) # None

(***************************************************************************)
(* Properties of the construction loop, checked under Spec.                *)
(***************************************************************************)
\* add_item of the parcel into a packer without placements, under the
\* parcel's own x-range, returns True.
EmptyPackerTakes(it) ==
    LET zone == get_zone_for_item(it, delivery_zones, use_delivery_zones)
    IN add_item(VehiclePacker(0), vehicle_template, it,
                zone_x_min(zone), zone_x_max(zone)).ok

\* C28: when the construction loop is over a parcel is in the unplaced list
\* if and only if add_item of it into an empty packer under its own x-range
\* fails; so solve reports success exactly when every parcel passes that
\* test, whatever the sort heuristic.
C28_UnplacedIffEmptyPackerFails ==
    /\ pc \in {"local_search", "done"} =>
         \A k \in 1..Len(items) :
           (items[k].id \in UnplacedIds) <=> ~ EmptyPackerTakes(items[k])
    /\ pc = "done" =>
         (success <=> \A k \in 1..Len(items) : EmptyPackerTakes(items[k]))

\* A finished run that placed a parcel and left unplaced another that fits
\* the vehicle shape: its x-range starts beyond 0.
C28_Witness ==
    /\ pc = "done"
    /\ ~ success
    /\ Len(vehicles) >= 1
    /\ \E k \in 1..Len(items) :
         /\ items[k].id \in UnplacedIds
         /\ can_fit_item(items[k], vehicle_template)

\* The three next corners of a placement.
NextCorners(p) ==
    {<<p.x + p.length, p.y, p.z>>, <<p.x, p.y + p.width, p.z>>,
     <<p.x, p.y, p.z + p.height>>}

\* C29: in every state of solve the origin of each placement is (0,0,0) or
\* a next corner of a placement that precedes it in the same packer's list;
\* in particular the first placement of every packer is at (0,0,0).
C29_OriginsAtCorners ==
    \A i \in 1..Len(vehicles) :
      \A j \in 1..Len(vehicles[i].placements) :
        LET q == vehicles[i].placements[j]
        IN \/ <<q.x, q.y, q.z>> = <<0, 0, 0>>
           \/ \E k \in 1..(j - 1) :
                <<q.x, q.y, q.z>> \in NextCorners(vehicles[i].placements[k])

\* A packer whose third placement sits on a next corner of the second that
\* is neither the origin nor a next corner of the first.
C29_Witness ==
    \E i \in 1..Len(vehicles) :
      /\ Len(vehicles[i].placements) >= 3
      /\ LET ps == vehicles[i].placements
         IN /\ <<ps[1].x, ps[1].y, ps[1].z>> = <<0, 0, 0>>
            /\ <<ps[3].x, ps[3].y, ps[3].z>> \in NextCorners(ps[2])
            /\ <<ps[3].x, ps[3].y, ps[3].z>> \notin NextCorners(ps[1])

====
